---- MODULE Spec2Model ----
(***************************************************************************)
(* monaco_assets: download, verify, extract and cache the Monaco editor   *)
(* assets (src/monaco_assets/__init__.py).                                 *)
(*                                                                         *)
(* The state is the part of the filesystem the module touches (the cache   *)
(* root CACHE_DIR, the version directory assets_dir, the archive file, the *)
(* package/ directory, whatever else an archive extracts) and, per caller, *)
(* the position inside get_path(), the members still to extract, and what  *)
(* the caller's last API call returned or raised.                          *)
(***************************************************************************)
EXTENDS Naturals, Sequences, FiniteSets, TLC

VARIABLES
    root,            \* CACHE_DIR exists
    assets,          \* assets_dir = CACHE_DIR / monaco-editor-VERSION exists
    tgz,             \* the archive file: NoFile, Truncated, or the archive written
    pkgExists,       \* package_dir exists
    pkgFiles,        \* the entries of package_dir
    others,          \* other entries extracted into assets_dir
    outside,         \* files created outside assets_dir
    supports_filter, \* tar.extract takes a filter argument (line 79)
    pc,              \* per caller: position in get_path ("idle": no call running)
    tar,             \* per caller: tar.getmembers() of the archive it opened
    todo,            \* per caller: members the for loop of _extract_tgz has left
    reqs,            \* per caller: urlopen calls made by its current/latest get_path
    result,          \* per caller: what its last API call returned or raised, and
    via,             \*   for get_path: the branch taken at line 99,
    cause,           \*   the exception e the except clause caught,
    rmerr            \*   whether the rmtree of the except clause met an error

fsvars == <<root, assets, tgz, pkgExists, pkgFiles, others, outside>>
vars == <<root, assets, tgz, pkgExists, pkgFiles, others, outside, supports_filter,
          pc, tar, todo, reqs, result, via, cause, rmerr>>

(***************************************************************************)
(* Bounds and constants.                                                   *)
(***************************************************************************)
\* longest member list of an archive the network may answer with
MaxMembers == 2

\* the callers: Caller alone in the sequential specification
Procs == {"main", "other"}
Caller == "main"

EXPECTED_SHA1 == "c0d6ebb46b83f1bef6f67f6aa471e38ba7ef8231"
\* some digest other than the pinned one
OtherSha1 == "da39a3ee5e6b4b0d3255bfef95601890afd80709"

\* archive member names, relative to the extraction destination
PkgDir == "package/"
PkgA == "package/a"
PkgB == "package/b"
TopFile == "README"
Traversal == "../../evil"
MemberNames == {PkgDir, PkgA, PkgB, TopFile, Traversal}

\* the order members come in: the directory before its files, the traversal
\* member after one file and before the other
MemberOrder == <<PkgDir, PkgA, Traversal, PkgB, TopFile>>

\* the member lists of at most n members
MemberLists(n) ==
    {LET In(m) == m \in S IN SelectSeq(MemberOrder, In) :
        S \in {T \in SUBSET MemberNames : Cardinality(T) <= n}}

\* what the registry (or whoever answers in its place) may send: any member
\* list, with content whose SHA-1 is the pinned one or not
Archives ==
    {[kind |-> "whole", digest |-> d, members |-> m] :
        d \in {EXPECTED_SHA1, OtherSha1}, m \in MemberLists(MaxMembers)}

\* the archive file when it does not exist, and when a write stopped part-way
NoFile == [kind |-> "none", digest |-> "", members |-> << >>]
Truncated == [kind |-> "partial", digest |-> OtherSha1, members |-> << >>]

\* the entry of package_dir a member creates, if any
PackageEntry(m) ==
    IF m = PkgA THEN {"a"} ELSE IF m = PkgB THEN {"b"} ELSE {}

RECURSIVE PackageEntries(_)
PackageEntries(ms) ==
    IF ms = << >> THEN {} ELSE PackageEntry(Head(ms)) \cup PackageEntries(Tail(ms))

(***************************************************************************)
(* _verify_file_hash: the SHA-1 of the file's bytes against the expected   *)
(* one.  A truncated file never hashes to the pinned digest.               *)
(***************************************************************************)
Sha1(file) == file.digest

VerifyFileHashAlways(file, expected_sha1) == TRUE
_verify_file_hash(file, expected_sha1) == Sha1(file) = expected_sha1

(***************************************************************************)
(* tarfile's "data" filter refuses a member that would land outside the    *)
(* destination.                                                            *)
(***************************************************************************)
DataFilterRejects(m) == m = Traversal

(***************************************************************************)
(* package_dir.exists() and any(package_dir.iterdir()), line 99.           *)
(***************************************************************************)
CacheHitInverted == pkgExists /\ pkgFiles = {}
CacheHit == pkgExists /\ pkgFiles # {}

TypeOK ==
    /\ root \in BOOLEAN /\ assets \in BOOLEAN /\ pkgExists \in BOOLEAN
    /\ tgz \in {NoFile, Truncated} \cup Archives
    /\ pkgFiles \subseteq {"a", "b"}
    /\ others \subseteq {TopFile}
    /\ outside \subseteq {"evil"}
    /\ supports_filter \in BOOLEAN
    /\ pc \in [Procs -> {"idle", "mkdir", "download", "verify", "open", "extract",
                         "return", "except"}]
    /\ \A p \in Procs : tar[p] \in MemberLists(MaxMembers)
    /\ \A p \in Procs : \E i \in 0..Len(tar[p]) : todo[p] = SubSeq(tar[p], i + 1, Len(tar[p]))
    /\ reqs \in [Procs -> 0..1]
    /\ result \in [Procs -> {"none", "path", "RuntimeError", "cleared", "OSError"}]
    /\ via \in [Procs -> {"none", "cache", "download"}]
    /\ cause \in [Procs -> {"none", "mkdir", "network", "write", "read", "hash",
                            "extract", "unlink"}]
    /\ rmerr \in [Procs -> BOOLEAN]
    \* the filesystem is a tree
    /\ assets => root
    /\ (tgz # NoFile \/ pkgExists \/ others # {}) => assets
    /\ pkgFiles # {} => pkgExists

(***************************************************************************)
(* Init: no call running.  The cache is as an earlier run (or an           *)
(* interrupted one) may have left it: absent, an empty version directory,  *)
(* an empty package/, or a populated package/.                             *)
(***************************************************************************)
Init ==
    /\ root \in BOOLEAN
    /\ assets \in {a \in BOOLEAN : a => root}
    /\ pkgExists \in {x \in BOOLEAN : x => assets}
    /\ pkgFiles \in {s \in {{}, {"a", "b"}} : s # {} => pkgExists}
    /\ tgz = NoFile
    /\ others = {}
    /\ outside = {}
    /\ supports_filter \in BOOLEAN
    /\ pc = [p \in Procs |-> "idle"]
    /\ tar = [p \in Procs |-> << >>]
    /\ todo = [p \in Procs |-> << >>]
    /\ reqs = [p \in Procs |-> 0]
    /\ result = [p \in Procs |-> "none"]
    /\ via = [p \in Procs |-> "none"]
    /\ cause = [p \in Procs |-> "none"]
    /\ rmerr = [p \in Procs |-> FALSE]

(***************************************************************************)
(* Filesystem helpers.                                                     *)
(***************************************************************************)
\* tar.extract(member, dest): missing upper directories are created, then the
\* member is written where its name points
WriteMember(m) ==
    /\ root' = TRUE
    /\ assets' = TRUE
    /\ pkgExists' = (pkgExists \/ m \in {PkgDir, PkgA, PkgB})
    /\ pkgFiles' = pkgFiles \cup PackageEntry(m)
    /\ others' = others \cup (IF m = TopFile THEN {TopFile} ELSE {})
    /\ outside' = outside \cup (IF m = Traversal THEN {"evil"} ELSE {})
    /\ UNCHANGED tgz

\* shutil.rmtree(assets_dir) that removed the whole tree
RmtreeAssets ==
    /\ assets' = FALSE
    /\ tgz' = NoFile
    /\ pkgExists' = FALSE
    /\ pkgFiles' = {}
    /\ others' = {}
    /\ UNCHANGED <<root, outside>>

\* what a rmtree that met an error may leave inside assets_dir
Remnants ==
    {r \in [tgz : {tgz, NoFile}, pkgExists : BOOLEAN,
            pkgFiles : SUBSET pkgFiles, others : SUBSET others] :
        /\ r.pkgExists => pkgExists
        /\ r.pkgFiles # {} => r.pkgExists}

Leave(r) ==
    /\ tgz' = r.tgz
    /\ pkgExists' = r.pkgExists
    /\ pkgFiles' = r.pkgFiles
    /\ others' = r.others

\* raise inside the try block of get_path: control goes to the except clause,
\* the with block of _extract_tgz closes the archive
Raise(p, e) ==
    /\ pc' = [pc EXCEPT ![p] = "except"]
    /\ cause' = [cause EXCEPT ![p] = e]
    /\ tar' = [tar EXCEPT ![p] = << >>]
    /\ todo' = [todo EXCEPT ![p] = << >>]

(***************************************************************************)
(* get_path(), lines 96-100: the cache check and the fast path.            *)
(***************************************************************************)
get_path(p) ==
    /\ pc[p] = "idle"
    /\ reqs' = [reqs EXCEPT ![p] = 0]
    /\ cause' = [cause EXCEPT ![p] = "none"]
    /\ rmerr' = [rmerr EXCEPT ![p] = FALSE]
    /\ tar' = [tar EXCEPT ![p] = << >>]
    /\ todo' = [todo EXCEPT ![p] = << >>]
    /\ result' = [result EXCEPT ![p] = "none"]
    /\ IF CacheHit
       THEN /\ via' = [via EXCEPT ![p] = "cache"]
            /\ pc' = [pc EXCEPT ![p] = "return"]
       ELSE /\ via' = [via EXCEPT ![p] = "download"]
            /\ pc' = [pc EXCEPT ![p] = "mkdir"]
    /\ UNCHANGED <<fsvars, supports_filter>>

(***************************************************************************)
(* Line 102: assets_dir.mkdir(parents=True, exist_ok=True).                *)
(***************************************************************************)
Mkdir(p) ==
    /\ pc[p] = "mkdir"
    /\ root' = TRUE
    /\ assets' = TRUE
    /\ pc' = [pc EXCEPT ![p] = "download"]
    /\ UNCHANGED <<tgz, pkgExists, pkgFiles, others, outside, supports_filter, rmerr,
                   tar, todo, reqs, result, via, cause>>

\* mkdir raises (permissions, disk); a missing parent may have been created
MkdirError(p) ==
    /\ pc[p] = "mkdir"
    /\ ~assets
    /\ root' \in {root, TRUE}
    /\ Raise(p, "mkdir")
    /\ UNCHANGED <<assets, tgz, pkgExists, pkgFiles, others, outside, supports_filter, rmerr,
                   reqs, result, via>>

(***************************************************************************)
(* Line 107, _download_file (lines 37-40): one urlopen, then the response  *)
(* is copied into the archive file.                                        *)
(***************************************************************************)
_download_file(p) ==
    /\ pc[p] = "download"
    /\ reqs' = [reqs EXCEPT ![p] = @ + 1]
    /\ \E ar \in Archives :
          IF assets
          THEN /\ tgz' = ar
               /\ pc' = [pc EXCEPT ![p] = "verify"]
               /\ UNCHANGED <<cause, tar, todo>>
          ELSE \* open(filename, "wb") in a directory that is gone
               /\ Raise(p, "write")
               /\ UNCHANGED tgz
    /\ UNCHANGED <<root, assets, pkgExists, pkgFiles, others, outside, supports_filter, rmerr,
                   result, via>>

\* urlopen raises: DNS, connection, TLS, HTTP status
DownloadNetworkError(p) ==
    /\ pc[p] = "download"
    /\ reqs' = [reqs EXCEPT ![p] = @ + 1]
    /\ Raise(p, "network")
    /\ UNCHANGED <<fsvars, supports_filter, rmerr, result, via>>

\* copyfileobj raises part-way: the archive file holds a truncated copy
DownloadWriteError(p) ==
    /\ pc[p] = "download"
    /\ assets
    /\ reqs' = [reqs EXCEPT ![p] = @ + 1]
    /\ tgz' = Truncated
    /\ Raise(p, "write")
    /\ UNCHANGED <<root, assets, pkgExists, pkgFiles, others, outside, supports_filter, rmerr,
                   result, via>>

(***************************************************************************)
(* Lines 108-109: the hash gate.                                           *)
(***************************************************************************)
Verify(p) ==
    /\ pc[p] = "verify"
    /\ IF tgz = NoFile
       THEN Raise(p, "read")
       ELSE IF ~_verify_file_hash(tgz, EXPECTED_SHA1)
            THEN Raise(p, "hash")
            ELSE /\ pc' = [pc EXCEPT ![p] = "open"]
                 /\ UNCHANGED <<cause, tar, todo>>
    /\ UNCHANGED <<fsvars, supports_filter, rmerr, reqs, result, via>>

(***************************************************************************)
(* _extract_tgz, lines 76-84.                                              *)
(***************************************************************************)
\* tarfile.open and tar.getmembers()
TarOpen(p) ==
    /\ pc[p] = "open"
    /\ IF tgz.kind = "whole"
       THEN /\ tar' = [tar EXCEPT ![p] = tgz.members]
            /\ todo' = [todo EXCEPT ![p] = tgz.members]
            /\ pc' = [pc EXCEPT ![p] = "extract"]
            /\ UNCHANGED cause
       ELSE Raise(p, "extract")
    /\ UNCHANGED <<fsvars, supports_filter, rmerr, reqs, result, via>>

\* one turn of the for loop: with a filter the unsafe member raises before
\* anything is written, without one the member is written as named
Extract(p) ==
    /\ pc[p] = "extract"
    /\ todo[p] # << >>
    /\ IF supports_filter /\ DataFilterRejects(Head(todo[p]))
       THEN /\ Raise(p, "extract")
            /\ UNCHANGED fsvars
       ELSE /\ WriteMember(Head(todo[p]))
            /\ todo' = [todo EXCEPT ![p] = Tail(@)]
            /\ UNCHANGED <<pc, cause, tar>>
    /\ UNCHANGED <<supports_filter, rmerr, reqs, result, via>>

\* tar.extract raises while writing (disk, permissions, corrupt data)
ExtractError(p) ==
    /\ pc[p] = "extract"
    /\ todo[p] # << >>
    /\ Raise(p, "extract")
    /\ UNCHANGED <<fsvars, supports_filter, rmerr, reqs, result, via>>

(***************************************************************************)
(* Line 111: tgz_file.unlink().                                            *)
(***************************************************************************)
UnlinkKeepsArchive(p) ==
    /\ pc[p] = "extract"
    /\ todo[p] = << >>
    /\ pc' = [pc EXCEPT ![p] = "return"]
    /\ UNCHANGED <<fsvars, supports_filter, rmerr, tar, todo, reqs, result, via, cause>>
UnlinkRemovesDirectory(p) ==
    /\ pc[p] = "extract"
    /\ todo[p] = << >>
    /\ IF assets THEN RmtreeAssets ELSE UNCHANGED fsvars
    /\ pc' = [pc EXCEPT ![p] = "return"]
    /\ UNCHANGED <<supports_filter, rmerr, tar, todo, reqs, result, via, cause>>
Unlink(p) ==
    /\ pc[p] = "extract"
    /\ todo[p] = << >>
    /\ IF tgz # NoFile
       THEN /\ tgz' = NoFile
            /\ pc' = [pc EXCEPT ![p] = "return"]
            /\ UNCHANGED <<cause, tar, todo>>
       ELSE /\ Raise(p, "unlink")
            /\ UNCHANGED tgz
    /\ UNCHANGED <<root, assets, pkgExists, pkgFiles, others, outside, supports_filter, rmerr,
                   reqs, result, via>>

\* unlink raises on a file that is there
UnlinkError(p) ==
    /\ pc[p] = "extract"
    /\ todo[p] = << >>
    /\ tgz # NoFile
    /\ Raise(p, "unlink")
    /\ UNCHANGED <<fsvars, supports_filter, rmerr, reqs, result, via>>

(***************************************************************************)
(* Lines 100 and 112: return package_dir.                                  *)
(***************************************************************************)
Return(p) ==
    /\ pc[p] = "return"
    /\ pc' = [pc EXCEPT ![p] = "idle"]
    /\ result' = [result EXCEPT ![p] = "path"]
    /\ tar' = [tar EXCEPT ![p] = << >>]
    /\ UNCHANGED <<fsvars, supports_filter, rmerr, todo, reqs, via, cause>>

(***************************************************************************)
(* Lines 113-116: the except clause.  rmtree removes assets_dir if it is   *)
(* there, and the RuntimeError is raised from e.                           *)
(***************************************************************************)
Except(p) ==
    /\ pc[p] = "except"
    /\ IF assets THEN RmtreeAssets ELSE UNCHANGED fsvars
    /\ pc' = [pc EXCEPT ![p] = "idle"]
    /\ result' = [result EXCEPT ![p] = "RuntimeError"]
    /\ UNCHANGED <<supports_filter, rmerr, tar, todo, reqs, via, cause>>

\* ignore_errors=True: rmtree met an error, said nothing, and left assets_dir
\* with some of its content
ExceptRmtreeIgnored(p) ==
    /\ pc[p] = "except"
    /\ assets
    /\ \E r \in Remnants : Leave(r)
    /\ pc' = [pc EXCEPT ![p] = "idle"]
    /\ result' = [result EXCEPT ![p] = "RuntimeError"]
    /\ rmerr' = [rmerr EXCEPT ![p] = TRUE]
    /\ UNCHANGED <<root, assets, outside, supports_filter, tar, todo, reqs, via, cause>>

(***************************************************************************)
(* clear_cache(), lines 121-122.                                           *)
(***************************************************************************)
ClearCacheKeepsRoot(p) ==
    /\ pc[p] = "idle"
    /\ IF root THEN RmtreeAssets ELSE UNCHANGED fsvars
    /\ result' = [result EXCEPT ![p] = "cleared"]
    /\ via' = [via EXCEPT ![p] = "none"]
    /\ cause' = [cause EXCEPT ![p] = "none"]
    /\ rmerr' = [rmerr EXCEPT ![p] = FALSE]
    /\ UNCHANGED <<supports_filter, pc, tar, todo, reqs>>
clear_cache(p) ==
    /\ pc[p] = "idle"
    /\ IF root
       THEN /\ root' = FALSE
            /\ assets' = FALSE
            /\ tgz' = NoFile
            /\ pkgExists' = FALSE
            /\ pkgFiles' = {}
            /\ others' = {}
            /\ UNCHANGED outside
       ELSE UNCHANGED fsvars
    /\ result' = [result EXCEPT ![p] = "cleared"]
    /\ via' = [via EXCEPT ![p] = "none"]
    /\ cause' = [cause EXCEPT ![p] = "none"]
    /\ rmerr' = [rmerr EXCEPT ![p] = FALSE]
    /\ UNCHANGED <<supports_filter, pc, tar, todo, reqs>>

\* rmtree(CACHE_DIR) raises at the first error: the root stays, with
\* assets_dir gone or partly emptied
ClearCacheError(p) ==
    /\ pc[p] = "idle"
    /\ root
    /\ \/ /\ assets
          /\ \E r \in Remnants : Leave(r)
          /\ UNCHANGED <<root, assets, outside>>
       \/ RmtreeAssets
    /\ result' = [result EXCEPT ![p] = "OSError"]
    /\ via' = [via EXCEPT ![p] = "none"]
    /\ cause' = [cause EXCEPT ![p] = "none"]
    /\ rmerr' = [rmerr EXCEPT ![p] = FALSE]
    /\ UNCHANGED <<supports_filter, pc, tar, todo, reqs>>

(***************************************************************************)
(* Specifications.  Spec: the single-threaded program, one caller, one     *)
(* call at a time.  SpecConc: two processes on the same cache, their       *)
(* filesystem operations interleaved.                                      *)
(***************************************************************************)
Step(p) ==
    \/ get_path(p)
    \/ Mkdir(p)
    \/ MkdirError(p)
    \/ _download_file(p)
    \/ DownloadNetworkError(p)
    \/ DownloadWriteError(p)
    \/ Verify(p)
    \/ TarOpen(p)
    \/ Extract(p)
    \/ ExtractError(p)
    \/ Unlink(p)
    \/ UnlinkError(p)
    \/ Return(p)
    \/ Except(p)
    \/ ExceptRmtreeIgnored(p)
    \/ clear_cache(p)
    \/ ClearCacheError(p)

Next == Step(Caller)

Spec == Init /\ [][Next]_vars

NextConc == \E p \in Procs : Step(p)

SpecConc == Init /\ [][NextConc]_vars

(***************************************************************************)
(* Properties.                                                             *)
(***************************************************************************)
\* package/ exists and holds at least one entry
Populated == pkgExists /\ pkgFiles # {}

\* C1: two get_path calls in a row, the first one returning after a download:
\* the first made exactly one request, and the second takes the fast path
\* (makes none, goes straight to return package_dir).
C1_TwiceOneRequest ==
    [][(/\ pc[Caller] = "idle"
        /\ result[Caller] = "path"
        /\ via[Caller] = "download"
        /\ get_path(Caller))
       => (/\ reqs[Caller] = 1
           /\ reqs'[Caller] = 0
           /\ via'[Caller] = "cache"
           /\ pc'[Caller] = "return")]_vars

\* C2 as stated: a call that ended on a hash mismatch has raised and has left
\* no version directory.
C2_NoResidueAfterMismatch ==
    (pc[Caller] = "idle" /\ result[Caller] = "RuntimeError" /\ cause[Caller] = "hash")
        => ~assets

\* C2 amended: an archive with another digest never gets past the hash gate
\* (so the call raises, it returns no path), and once the call has ended on
\* the mismatch the version directory does not exist, unless the rmtree of
\* the except clause met an error, which ignore_errors=True swallows.
C2_MismatchRaisesAndCleans ==
    /\ pc[Caller] \in {"open", "extract"} => tgz.digest = EXPECTED_SHA1
    /\ cause[Caller] = "hash" => pc[Caller] \in {"except", "idle"}
    /\ (pc[Caller] = "idle" /\ result[Caller] = "RuntimeError" /\ cause[Caller] = "hash")
       => (~assets \/ rmerr[Caller])

\* a call has ended on a hash mismatch and the version directory is gone
C2_Witness ==
    /\ pc[Caller] = "idle"
    /\ result[Caller] = "RuntimeError"
    /\ cause[Caller] = "hash"
    /\ ~rmerr[Caller]
    /\ ~assets

\* C3: when get_path is about to return package_dir (fast path or after a
\* download), package_dir exists.
C3_ReturnedPathExists == pc[Caller] = "return" => pkgExists

\* C4: no partial success is returned.  A call that is about to return has
\* had no failed step, and what it returns is a populated package/ holding
\* every package entry of the archive it extracted.
C4_NoPartialSuccess ==
    pc[Caller] = "return"
        => (/\ cause[Caller] = "none"
            /\ Populated
            /\ PackageEntries(tar[Caller]) \subseteq pkgFiles)

\* C5: a call that finds package/ populated goes straight to return
\* package_dir: no request, no hash check, nothing on disk touched.
C5_FastPath ==
    /\ [][(pc[Caller] = "idle" /\ Populated /\ get_path(Caller))
          => (/\ pc'[Caller] = "return"
              /\ via'[Caller] = "cache"
              /\ reqs'[Caller] = 0
              /\ UNCHANGED fsvars)]_vars
    /\ [][(pc[Caller] = "return" /\ via[Caller] = "cache" /\ Return(Caller))
          => (/\ result'[Caller] = "path"
              /\ reqs'[Caller] = 0
              /\ UNCHANGED fsvars)]_vars

\* a call has returned by the fast path
C5_Witness ==
    /\ pc[Caller] = "idle"
    /\ result[Caller] = "path"
    /\ via[Caller] = "cache"
    /\ reqs[Caller] = 0
    /\ Populated

\* C6: whatever the archive and whether or not tar.extract has a filter, no
\* file is ever created outside the destination directory.
C6_NothingOutside == outside = {}

\* C7: after clear_cache has returned the cache root does not exist; with the
\* root absent clear_cache changes nothing on disk; the get_path that follows a
\* clear_cache goes down the download path, and a call that returns from that
\* path has made its request.
C7_ClearCache ==
    /\ [](result[Caller] = "cleared" => ~root)
    /\ [][(~root /\ clear_cache(Caller)) => UNCHANGED fsvars]_vars
    /\ [][(result[Caller] = "cleared" /\ get_path(Caller))
          => (pc'[Caller] = "mkdir" /\ via'[Caller] = "download")]_vars
    /\ [](pc[Caller] = "return" /\ via[Caller] = "download" => reqs[Caller] = 1)

\* a get_path has downloaded (so the cache root was there), then clear_cache
\* has returned, and the cache root is gone
C7_Witness ==
    /\ pc[Caller] = "idle"
    /\ result[Caller] = "cleared"
    /\ reqs[Caller] = 1
    /\ ~root

\* C8 as stated: with no call in progress the archive file is absent.
C8_NoArchiveAtRest == pc[Caller] = "idle" => tgz = NoFile

\* C8 amended: only a download creates the archive file; a call about to
\* return after a download has deleted it; a failed call leaves it behind only
\* when the rmtree of its except clause met an error.
C8_ArchiveTransient ==
    /\ [][(tgz = NoFile /\ tgz' # NoFile)
          => (pc[Caller] = "download" /\ pc'[Caller] \in {"verify", "except"})]_vars
    /\ [](pc[Caller] = "return" /\ via[Caller] = "download" => tgz = NoFile)
    /\ [][(pc[Caller] = "except" /\ pc'[Caller] = "idle" /\ tgz' # NoFile)
          => rmerr'[Caller]]_vars

\* a call has returned after a download and the archive file is gone
C8_Witness ==
    /\ pc[Caller] = "idle"
    /\ result[Caller] = "path"
    /\ via[Caller] = "download"
    /\ tgz = NoFile
    /\ Populated

\* C9: a get_path call is on the download path only when it found package/
\* unpopulated, so a populated package/ is changed only by clear_cache or by
\* the extraction and cleanup of the very call that populated it.
C9_PopulatedIsFrozen ==
    /\ [](pc[Caller] \in {"mkdir", "download", "verify", "open"} => ~Populated)
    /\ [][(Populated /\ <<pkgExists, pkgFiles>>' # <<pkgExists, pkgFiles>>)
          => \/ clear_cache(Caller)
             \/ ClearCacheError(Caller)
             \/ pc[Caller] \in {"extract", "except"}]_vars
    /\ [][(pc[Caller] = "idle" /\ Populated /\ get_path(Caller))
          => pc'[Caller] = "return"]_vars

\* a call has found package/ populated and has returned it from the cache
\* (a package/ holding a alone is none of the initial states)
C9_Witness ==
    /\ pc[Caller] = "idle"
    /\ result[Caller] = "path"
    /\ via[Caller] = "cache"
    /\ pkgFiles = {"a"}

\* what the call of p has found or made of package/ when it is about to
\* return it: populated (fast path), or holding what it extracted
Established(p) ==
    IF via[p] = "cache"
    THEN Populated
    ELSE PackageEntries(tar[p]) # {}
            => (pkgExists /\ PackageEntries(tar[p]) \subseteq pkgFiles)

\* C10: the sequential guarantee depends on no other caller acting: a call
\* that is about to return a package/ that is not what it found or extracted
\* has had another caller run on the same cache.
C10_BrokenOnlyByOtherCaller ==
    \A p \in Procs :
        (pc[p] = "return" /\ ~Established(p))
            => \E q \in Procs \ {p} : pc[q] # "idle" \/ result[q] # "none"

\* the race: one call is about to return package_dir after extracting package
\* files, and the cleanup of the other call, whose download failed, has
\* removed the directory
C10_Witness ==
    \E p \in Procs : \E q \in Procs \ {p} :
        /\ pc[p] = "return"
        /\ via[p] = "download"
        /\ PackageEntries(tar[p]) # {}
        /\ ~pkgExists
        /\ pc[q] = "idle"
        /\ result[q] = "RuntimeError"
        /\ cause[q] = "network"

====
